---- MODULE Spec2Model ----
(***************************************************************************)
(* A model of the entity normalizer of Email_Analyzer                      *)
(* (src/data_normalizer.py) and of the review workflow that drives it      *)
(* (src/review_mappings.py).                                               *)
(*                                                                         *)
(* A Python str is a sequence of one-character strings, so that cleaning,  *)
(* lower-casing, the validators' regular expressions and difflib's         *)
(* matching blocks are computed on the characters, as the code does.       *)
(* A similarity score is the fraction <<2*matches, length>> that           *)
(* SequenceMatcher.ratio() divides; two scores are compared by cross       *)
(* multiplication, which orders them as the correctly rounded floats do.   *)
(***************************************************************************)
EXTENDS Integers, Sequences, FiniteSets, TLC

VARIABLES
    cls,                    \* the class of the normalizer instance
    mappings,               \* self.mappings: variant -> canonical
    standardized_entities,  \* self.standardized_entities
    pending_review,         \* self.pending_review: variant -> [suggested, score]
    std_iter,               \* the order in which the set standardized_entities iterates
    val_iter,               \* the order in which set(self.mappings.values()) iterates
    resource,               \* the content of the mappings file
    pc,                     \* the position of the process inside save_mappings
    call,                   \* the last operation: its name, argument, result and locals,
                            \* and whether it repeats the operation before it
    rejected,               \* the pending entities whose suggestion a review has rejected
    review,                 \* the loop of review_normalizer: the keys its iterator
                            \* yields, the next position and the size it expects
    other,                  \* a second instance on the same file: its attributes and
                            \* its position in save_mappings
    prior,                  \* the content of the file before the last save_mappings began
    observed                \* the content that another instance's load_mappings has read

vars == <<cls, mappings, standardized_entities, pending_review, std_iter, val_iter,
          resource, pc, call, rejected, review, other, prior, observed>>

-----------------------------------------------------------------------------
(* Characters and the str methods the code uses.                           *)

UpperCase == <<"A","B","C","D","E","F","G","H","I","J","K","L","M",
               "N","O","P","Q","R","S","T","U","V","W","X","Y","Z">>

LowerCase == <<"a","b","c","d","e","f","g","h","i","j","k","l","m",
               "n","o","p","q","r","s","t","u","v","w","x","y","z">>

Digits == {"0","1","2","3","4","5","6","7","8","9"}

HexLower == Digits \cup {"a","b","c","d","e","f"}

Letters == {UpperCase[i] : i \in 1..26} \cup {LowerCase[i] : i \in 1..26}

\* What str.strip(), str.split() and the regular expressions' \s take as white space.
Whitespace == {" ", "\t", "\n", "\r"}

lower_char(ch) ==
    IF \E i \in 1..26 : UpperCase[i] = ch
    THEN LowerCase[CHOOSE i \in 1..26 : UpperCase[i] = ch]
    ELSE ch

lower(s) == [i \in 1..Len(s) |-> lower_char(s[i])]

SetMin(S) == CHOOSE x \in S : \A y \in S : x <= y

SetMax(S) == CHOOSE x \in S : \A y \in S : x >= y

strip(s) ==
    LET black == {i \in 1..Len(s) : s[i] \notin Whitespace}
    IN  IF black = {} THEN <<>> ELSE SubSeq(s, SetMin(black), SetMax(black))

\* len(s.split()): the number of maximal runs of non-white-space characters.
word_count(s) ==
    Cardinality({i \in 1..Len(s) :
        /\ s[i] \notin Whitespace
        /\ (i = 1 \/ s[i-1] \in Whitespace)})

StartsWith(s, p) == Len(s) >= Len(p) /\ SubSeq(s, 1, Len(p)) = p

Contains(s, p) ==
    \E i \in 1..(Len(s) - Len(p) + 1) : SubSeq(s, i, i + Len(p) - 1) = p

\* The positions at which a regular expression's $ matches after n characters
\* of s: at the end of s, or before a line feed that ends s.
AtEnd(s, n) == n = Len(s) \/ (n = Len(s) - 1 /\ s[Len(s)] = "\n")

AllIn(s, lo, hi, chars) == \A i \in lo..hi : s[i] \in chars

-----------------------------------------------------------------------------
(* Similarity: difflib.SequenceMatcher(None, a.lower(), b.lower()).ratio()  *)

RECURSIVE RunLength(_, _, _, _, _, _)
\* The length of the common run of a and b that starts at a[i] and b[j] and
\* stays inside a[..ahi] and b[..bhi].
RunLength(a, b, i, j, ahi, bhi) ==
    IF i > ahi \/ j > bhi THEN 0
    ELSE IF a[i] # b[j] THEN 0
    ELSE 1 + RunLength(a, b, i + 1, j + 1, ahi, bhi)

\* SequenceMatcher.find_longest_match(alo, ahi, blo, bhi) without junk (autojunk
\* acts only on sequences of 200 or more elements): the longest block, of those
\* the one that starts earliest in a, of those the one that starts earliest in b.
find_longest_match(a, b, alo, ahi, blo, bhi) ==
    LET size == SetMax({0} \cup {RunLength(a, b, i, j, ahi, bhi) :
                                    i \in alo..ahi, j \in blo..bhi})
        starts == {p \in (alo..ahi) \X (blo..bhi) :
                      RunLength(a, b, p[1], p[2], ahi, bhi) = size}
        i0 == SetMin({p[1] : p \in starts})
        j0 == SetMin({p[2] : p \in {q \in starts : q[1] = i0}})
    IN  IF size = 0 THEN [i |-> alo, j |-> blo, size |-> 0]
        ELSE [i |-> i0, j |-> j0, size |-> size]

RECURSIVE matching_total(_, _, _, _, _, _)
\* The sum of the sizes of SequenceMatcher.get_matching_blocks(): the longest
\* block, then the same to its left and to its right.
matching_total(a, b, alo, ahi, blo, bhi) ==
    IF alo > ahi \/ blo > bhi THEN 0
    ELSE LET m == find_longest_match(a, b, alo, ahi, blo, bhi)
         IN  IF m.size = 0 THEN 0
             ELSE m.size
                  + matching_total(a, b, alo, m.i - 1, blo, m.j - 1)
                  + matching_total(a, b, m.i + m.size, ahi, m.j + m.size, bhi)

RECURSIVE Gcd(_, _)
Gcd(x, y) == IF y = 0 THEN x ELSE Gcd(y, x % y)

\* The float num/den, as the fraction in lowest terms.
Float(num, den) == <<num \div Gcd(num, den), den \div Gcd(num, den)>>

\* SequenceMatcher.ratio(): 2.0 * matches / length, and 1.0 when both are empty.
ratio(a, b) ==
    IF Len(a) + Len(b) = 0 THEN <<1, 1>>
    ELSE Float(2 * matching_total(a, b, 1, Len(a), 1, Len(b)), Len(a) + Len(b))

similarity(a, b) == ratio(lower(a), lower(b))

\* x >= y and x > y on floats.
score_ge(x, y) == x[1] * y[2] >= y[1] * x[2]

score_gt(x, y) == x[1] * y[2] > y[1] * x[2]

DEFAULT_AUTO_THRESHOLD == <<9, 10>>

\* A suggest threshold one tenth below the default.
LOW_SUGGEST_THRESHOLD == <<6, 10>>

DEFAULT_SUGGEST_THRESHOLD == <<7, 10>>

-----------------------------------------------------------------------------
(* The three classes: defaults, cleaning and validators.                   *)

Classes == {"Company", "Category", "Template"}

\* Normalizer.get_default_entity, which each of the three classes overrides.
base_default_entity(c) == <<"U","n","k","n","o","w","n">>

get_default_entity(c) ==
    IF c = "Company" THEN <<"U","n","k","n","o","w","n"," ","C","o","m","p","a","n","y">>
    ELSE <<"O","t","h","e","r">>

known_companies ==
    { <<"B", "e", "a", "c", "o", "n", " ", "C", "o", "m", "m", "u", "n", "i", "c", "a", "t", "i", "o", "n", "s", ",", " ", "L", "L", "C">>,
      <<"B", "e", "n", " ", "H", "u", "r", " ", "C", "o", "n", "s", "t", "r", "u", "c", "t", "i", "o", "n", " ", "C", "o", ".">>,
      <<"B", "l", "u", "S", "k", "y", " ", "R", "e", "s", "t", "o", "r", "a", "t", "i", "o", "n", " ", "C", "o", "n", "t", "r", "a", "c", "t", "o", "r", "s", ",", " ", "L", "L", "C">>,
      <<"C", "o", "n", "c", "r", "e", "t", "e", " ", "&", " ", "M", "a", "t", "e", "r", "i", "a", "l", "s", " ", "P", "l", "a", "c", "e", "m", "e", "n", "t">>,
      <<"D", "o", "g", "g", "e", "t", "t", " ", "C", "o", "n", "c", "r", "e", "t", "e", " ", "C", "o", "n", "s", "t", "r", "u", "c", "t", "i", "o", "n">>,
      <<"G", "B", "I">>,
      <<"G", "u", "l", "f", " ", "S", "t", "r", "e", "a", "m", " ", "C", "o", "n", "s", "t", "r", "u", "c", "t", "i", "o", "n", " ", "C", "o", ".", ",", " ", "I", "n", "c", ".">>,
      <<"H", "&", "M", " ", "M", "e", "c", "h", "a", "n", "i", "c", "a", "l", " ", "C", "o", "n", "s", "t", "r", "u", "c", "t", "o", "r", "s", ",", " ", "I", "n", "c", ".">>,
      <<"H", "a", "s", "k", "e", "l", "l", " ", "L", "e", "m", "o", "n">>,
      <<"N", "P", " ", "M", "e", "c", "h", "a", "n", "i", "c", "a", "l", ",", " ", "I", "n", "c", ".">>,
      <<"S", ".", "M", ".", " ", "H", "e", "n", "t", "g", "e", "s">>,
      <<"T", "S", "U", " ", "O", "n", "e", ",", " ", "I", "n", "c", ".">>,
      <<"T", "a", "f", "t", "E", "l", "e", "c", "t", "r", "i", "c">>,
      <<"M", "o", "i", "s", "t", "u", "r", "e", " ", "L", "o", "c">>,
      <<"C", "o", "m", "t", "e", "l", " ", "S", "y", "s", "t", "e", "m", "s", " ", "T", "e", "c", "h", "n", "o", "l", "o", "g", "y">>,
      <<"G", "r", "e", "a", "t", " ", "B", "a", "s", "i", "n", " ", "I", "n", "d", "u", "s", "t", "r", "i", "a", "l">>,
      <<"D", "o", "g", "g", "e", "t", "t", " ", "R", "e", "s", "i", "d", "e", "n", "t", "i", "a", "l">> }

company_vocabulary ==
    { <<"e", "r", "r", "o", "r">>,
      <<"i", "s", "s", "u", "e">>,
      <<"w", "a", "r", "n", "i", "n", "g">>,
      <<"i", "n", "c", "o", "r", "r", "e", "c", "t">>,
      <<"w", "r", "o", "n", "g">>,
      <<"m", "i", "s", "s", "i", "n", "g">>,
      <<"i", "n", "v", "o", "i", "c", "e">>,
      <<"w", "i", "z", "a", "r", "d">>,
      <<"s", "y", "s", "t", "e", "m">>,
      <<"p", "r", "e", "d", "i", "c", "t", "i", "o", "n">>,
      <<"v", "e", "n", "d", "o", "r">>,
      <<"d", "o", "c", "u", "m", "e", "n", "t">> }

company_sentence_starters ==
    { <<"t", "h", "e">>,
      <<"t", "h", "e", "r", "e">>,
      <<"i", "s">>,
      <<"w", "e">>,
      <<"n", "o", "t">>,
      <<"t", "h", "i", "s">>,
      <<"a", "l", "l">>,
      <<"d", "u", "e">>,
      <<"c", "h", "a", "n", "g", "e", "d">>,
      <<"d", "a", "t", "a">>,
      <<"p", "o">>,
      <<"s", "q", "l">>,
      <<"s", "h", "o", "u", "l", "d">>,
      <<"w", "i", "z", "a", "r", "d">>,
      <<"g", "r", "a", "n", "t">>,
      <<"e", "m", "a", "i", "l">>,
      <<"i", "n", "v", "o", "i", "c", "e">>,
      <<"s", "a", "l", "e", "s">> }

legal_suffixes ==
    { <<"i", "n", "c">>,
      <<"i", "n", "c", ".">>,
      <<"l", "l", "c">>,
      <<"l", "l", "c", ".">>,
      <<"l", "t", "d">>,
      <<"l", "t", "d", ".">>,
      <<"c", "o">>,
      <<"c", "o", ".">>,
      <<"c", "o", "r", "p">>,
      <<"c", "o", "r", "p", ".">>,
      <<"c", "o", "r", "p", "o", "r", "a", "t", "i", "o", "n">>,
      <<"l", "i", "m", "i", "t", "e", "d">> }

valid_keywords ==
    { <<"v", "e", "n", "d", "o", "r">>,
      <<"p", "r", "e", "d", "i", "c", "t", "i", "o", "n">>,
      <<"s", "y", "s", "t", "e", "m">>,
      <<"p", "e", "r", "f", "o", "r", "m", "a", "n", "c", "e">>,
      <<"e", "r", "r", "o", "r">>,
      <<"u", "p", "l", "o", "a", "d">>,
      <<"d", "o", "c", "u", "m", "e", "n", "t">>,
      <<"i", "n", "t", "e", "g", "r", "a", "t", "i", "o", "n">>,
      <<"e", "r", "p">>,
      <<"a", "c", "c", "o", "u", "n", "t", "i", "n", "g">>,
      <<"i", "n", "v", "o", "i", "c", "e">>,
      <<"s", "u", "b", "m", "i", "t">>,
      <<"u", "n", "e", "x", "p", "e", "c", "t", "e", "d">> }

default_markers ==
    { <<"n", "/", "a">>,
      <<"u", "n", "k", "n", "o", "w", "n">>,
      <<>> }

\* `not entity or entity.lower() in ('n/a', 'unknown', '')`
is_default_input(entity) == entity = <<>> \/ lower(entity) \in default_markers

\* re.sub(r'\s+(Inc\.?|LLC\.?|...)$', '', cleaned, flags=re.IGNORECASE): the
\* leftmost white-space run that a legal suffix and the end of the string follow.
strip_legal_suffix(s) ==
    LET ends(i) == {n \in i..Len(s) :
                      /\ AtEnd(s, n)
                      /\ \E j \in i..n :
                            /\ AllIn(s, i, j, Whitespace)
                            /\ lower(SubSeq(s, j + 1, n)) \in legal_suffixes}
        cuts == {i \in 1..Len(s) : ends(i) # {}}
    IN  IF cuts = {} THEN s
        ELSE LET i0 == SetMin(cuts)
             IN  SubSeq(s, 1, i0 - 1) \o SubSeq(s, SetMax(ends(i0)) + 1, Len(s))

clean_entity(c, entity) ==
    IF c = "Company" THEN strip_legal_suffix(strip(entity)) ELSE strip(entity)

\* r'^[0-9a-f]{8}-[0-9a-f]{4}-[0-9a-f]{4}-[0-9a-f]{4}-[0-9a-f]{12}$' over the
\* characters `hex`.
uuid_shaped(s, hex) ==
    /\ Len(s) >= 36
    /\ AtEnd(s, 36)
    /\ \A i \in 1..36 : IF i \in {9, 14, 19, 24} THEN s[i] = "-" ELSE s[i] \in hex

\* r'^[chars]+$'
only_chars(s, chars) == \E n \in 1..Len(s) : AtEnd(s, n) /\ AllIn(s, 1, n, chars)

\* CompanyNormalizer.exclude_patterns, each tried with re.search and re.IGNORECASE.
company_excluded(entity) ==
    \/ uuid_shaped(lower(entity), HexLower)
    \/ only_chars(entity, Digits)
    \/ only_chars(entity, Digits \cup {".", "-"})
    \/ StartsWith(entity, <<"<">>)
    \/ \E w \in company_vocabulary : Contains(lower(entity), w)
    \/ \E w \in company_sentence_starters :
          /\ StartsWith(lower(entity), w)
          /\ Len(entity) > Len(w)
          /\ entity[Len(w) + 1] \in Whitespace

is_invalid_company(entity) ==
    IF is_default_input(entity) THEN TRUE
    ELSE IF company_excluded(entity) THEN TRUE
    ELSE IF entity \in known_companies THEN FALSE
    ELSE IF Len(entity) > 50 THEN TRUE
    ELSE IF word_count(entity) > 8 THEN TRUE
    ELSE FALSE

\* r'^[a-zA-Z0-9._%+-]+@[a-zA-Z0-9.-]+\.[a-zA-Z]{2,}$'
email_shaped(s) ==
    \E at \in 2..Len(s), dot \in 3..Len(s), n \in 1..Len(s) :
        /\ s[at] = "@"
        /\ AllIn(s, 1, at - 1, Letters \cup Digits \cup {".", "_", "%", "+", "-"})
        /\ dot > at + 1
        /\ AllIn(s, at + 1, dot - 1, Letters \cup Digits \cup {".", "-"})
        /\ s[dot] = "."
        /\ AtEnd(s, n)
        /\ n >= dot + 2
        /\ AllIn(s, dot + 1, n, Letters)

\* TemplateNormalizer.exclude_patterns, each tried with re.match, case-sensitive.
template_excluded(entity) == uuid_shaped(entity, HexLower) \/ email_shaped(entity)

is_invalid_template(entity) ==
    IF is_default_input(entity) THEN TRUE
    ELSE IF template_excluded(entity) THEN TRUE
    ELSE ~ \E keyword \in valid_keywords : Contains(lower(entity), keyword)

-----------------------------------------------------------------------------
(* The strings of the model.                                               *)

None == <<"None">>

\* An iteration order that no loop has depended on yet.
Undrawn == << <<"undrawn">> >>

EMPTY == <<>>

N_A == <<"N","/","A">>

UNKNOWN == <<"U","n","k","n","o","w","n">>

BLANK == <<" "," ">>

TSU == <<"T","S","U">>

TSU_ONE == <<"T","S","U"," ","O","n","e">>

TSU_ONE_INC == <<"T","S","U"," ","O","n","e",","," ","I","n","c",".">>

GRANTS == <<"G","r","a","n","t","s">>

GRANT == <<"G","r","a","n","t">>

GRANT_LTD == <<"G","r","a","n","t"," ","L","t","d">>

UNKNOWN_COMPANY == <<"U","n","k","n","o","w","n"," ","C","o","m","p","a","n","y">>

OTHER_CATEGORY == <<"O","t","h","e","r">>

OTHER_ISSUE == <<"O","t","h","e","r"," ","I","s","s","u","e">>

SYNC_ERROR == <<"S","y","n","c"," ","E","r","r","o","r">>

SYNC_RETRY == <<"S","y","n","c"," ","R","e","t","r","y">>

SYNC_DELAY == <<"S","y","n","c"," ","D","e","l","a","y">>

SYSTEM_ERROR == <<"S","y","s","t","e","m"," ","E","r","r","o","r">>

UNEXPECTED_ERROR == <<"U","n","e","x","p","e","c","t","e","d"," ","E","r","r","o","r">>

UPLOAD_ERROR == <<"U","p","l","o","a","d"," ","E","r","r","o","r">>

UPLOAD_ERRORS == <<"U","p","l","o","a","d"," ","E","r","r","o","r","s">>

INVOICE_1 == <<"I","n","v","o","i","c","e"," ","#","1">>

INVOICE_2 == <<"I","n","v","o","i","c","e"," ","#","2">>

NEW_SUBJECT_TEMPLATE ==
    <<"N","e","w"," ","S","u","b","j","e","c","t"," ","T","e","m","p","l","a","t","e">>

\* The raw strings that callers hand to normalize().
Inputs(c) ==
    {EMPTY, N_A, UNKNOWN, BLANK} \cup
    (CASE c = "Company"  -> {TSU, TSU_ONE, TSU_ONE_INC, GRANTS, GRANT, GRANT_LTD}
       [] c = "Category" -> {OTHER_ISSUE, SYNC_ERROR, SYNC_RETRY, SYNC_DELAY}
       [] c = "Template" -> {SYSTEM_ERROR, UPLOAD_ERROR, UPLOAD_ERRORS, INVOICE_1, INVOICE_2,
                             NEW_SUBJECT_TEMPLATE})

NUMERIC_ID ==
    <<"1","2","3">>

DASHED_ID ==
    <<"1","2","-","3","4",".","5">>

UUID ==
    <<"a","1","b","2","c","3","d","4","-","e","5","f","6","-","7","8","9","0",
      "-","a","b","c","d","-","e","f","1","2","3","4","5","6","7","8","9",
      "0">>

HTML_TAG ==
    <<"<","d","i","v",">">>

SQL_ERROR_OCCURRED ==
    <<"S","Q","L"," ","e","r","r","o","r"," ","o","c","c","u","r","r","e",
      "d">>

THE_COMPANY ==
    <<"T","h","e"," ","C","o","m","p","a","n","y">>

LONG_NAME ==
    <<"M","a","s","s","a","c","h","u","s","e","t","t","s"," ","B","a","y"," ",
      "T","r","a","n","s","p","o","r","t","a","t","i","o","n"," ","A","u","t",
      "h","o","r","i","t","y"," ","C","o","n","t","r","a","c","t","o","r","s",
      " ","G","r","o","u","p">>

NINE_WORDS ==
    <<"A","l"," ","B","o"," ","C","y"," ","D","i"," ","E","d"," ","F","a"," ",
      "G","u"," ","H","a","l"," ","I","a","n">>

COMTEL ==
    <<"C","o","m","t","e","l"," ","S","y","s","t","e","m","s"," ","T","e","c",
      "h","n","o","l","o","g","y">>

BLUSKY ==
    <<"B","l","u","S","k","y"," ","R","e","s","t","o","r","a","t","i","o","n",
      " ","C","o","n","t","r","a","c","t","o","r","s",","," ","L","L","C">>

GBI ==
    <<"G","B","I">>

VENDOR_EMAIL ==
    <<"v","e","n","d","o","r","@","e","x","a","m","p","l","e",".","c","o",
      "m">>

HELLO_WORLD ==
    <<"H","e","l","l","o"," ","W","o","r","l","d">>

\* Raw strings for the rules of the validators: the numeric, UUID and HTML
\* shapes, the excluded vocabulary, a sentence starter, more than 50
\* characters, more than 8 words, three names of the allow-list, an e-mail
\* address and a subject without a keyword.
Shapes(c) ==
    CASE c = "Company"  -> {NUMERIC_ID, DASHED_ID, UUID, HTML_TAG, SQL_ERROR_OCCURRED,
                            THE_COMPANY, LONG_NAME, NINE_WORDS, COMTEL, BLUSKY, GBI}
      [] c = "Category" -> {}
      [] c = "Template" -> {UUID, VENDOR_EMAIL, HELLO_WORLD, SQL_ERROR_OCCURRED}

NEW_COMPANY_LLC ==
    <<"N","e","w"," ","C","o","m","p","a","n","y"," ","L","L","C">>

NEW_SUPPORT_CATEGORY ==
    <<"N","e","w"," ","S","u","p","p","o","r","t"," ","C","a","t","e","g","o","r","y">>

\* test_new_entity_handling: the new entity of each class.
new_entity(c) ==
    CASE c = "Company"  -> NEW_COMPANY_LLC
      [] c = "Category" -> NEW_SUPPORT_CATEGORY
      [] c = "Template" -> NEW_SUBJECT_TEMPLATE

\* f"{entity} Variation"
variation(entity) == entity \o <<" ","V","a","r","i","a","t","i","o","n">>

\* The strings test_new_entity_handling normalizes.
Tested(c) == {new_entity(c), variation(new_entity(c))}

\* The raw strings that fill the store before a validator is asked.
Builders(c) ==
    CASE c = "Company"  -> {TSU_ONE, TSU_ONE_INC, GRANTS}
      [] c = "Category" -> {SYNC_ERROR, SYNC_RETRY}
      [] c = "Template" -> {UPLOAD_ERROR, UPLOAD_ERRORS, INVOICE_1}

\* The canonical names a reviewer types as a custom mapping.
Customs(c) ==
    CASE c = "Company"  -> {TSU_ONE_INC}
      [] c = "Category" -> {SYNC_ERROR}
      [] c = "Template" -> {UPLOAD_ERROR}

\* The largest number of standardized entities a run of the model collects.
MaxEntities == 4

-----------------------------------------------------------------------------
(* The mappings file.                                                      *)

NoMappings == [k \in {} |-> <<>>]

\* The keys of the JSON object that save_mappings writes.
BothKeys == {"mappings", "standardized_entities"}

MissingResource ==
    [kind |-> "missing", keys |-> {}, mappings |-> NoMappings, standardized_entities |-> {}]

\* {"mappings": {}, "standardized_entities": []}
EmptyResource ==
    [kind |-> "json", keys |-> BothKeys, mappings |-> NoMappings,
     standardized_entities |-> {}]

\* The mappings file a class ships with: the variant and the canonical name of
\* one test case that no similarity score explains.
ShippedMappings(c) ==
    CASE c = "Company"  -> [k \in {TSU} |-> TSU_ONE_INC]
      [] c = "Category" -> [k \in {OTHER_ISSUE} |-> OTHER_CATEGORY]
      [] c = "Template" -> [k \in {SYSTEM_ERROR} |-> UNEXPECTED_ERROR]

Range(f) == {f[x] : x \in DOMAIN f}

ShippedResource(c) ==
    [kind |-> "json", keys |-> BothKeys, mappings |-> ShippedMappings(c),
     standardized_entities |-> Range(ShippedMappings(c))]

\* A file with a "mappings" object and no "standardized_entities".
MappingsOnlyResource(c) ==
    [kind |-> "json", keys |-> {"mappings"}, mappings |-> ShippedMappings(c),
     standardized_entities |-> {}]

InitialResources(c) ==
    {MissingResource, EmptyResource, ShippedResource(c), MappingsOnlyResource(c)}

RECURSIVE Orders(_)
\* The orders in which a set of strings can iterate.
Orders(S) ==
    IF S = {} THEN {<<>>}
    ELSE UNION {{Append(o, x) : o \in Orders(S \ {x})} : x \in S}

\* load_mappings(): what self.mappings and self.standardized_entities hold after it.
load_mappings(res) ==
    IF res.kind = "json"
    THEN [mappings |-> IF "mappings" \in res.keys THEN res.mappings ELSE NoMappings,
          standardized_entities |-> IF "standardized_entities" \in res.keys
                                    THEN res.standardized_entities ELSE {}]
    ELSE [mappings |-> NoMappings, standardized_entities |-> {}]

\* A dump that leaves the standardized entities out.
dumped_without_entities(st) ==
    [kind |-> "json", keys |-> {"mappings"}, mappings |-> st.mappings,
     standardized_entities |-> {}]

\* json.dump of self.mappings and list(self.standardized_entities).
dumped(st) ==
    [kind |-> "json", keys |-> BothKeys, mappings |-> st.mappings,
     standardized_entities |-> st.standardized_entities]

\* The file after open(self.mappings_file, 'w') and before the dump reaches it.
TruncatedResource ==
    [kind |-> "truncated", keys |-> {}, mappings |-> NoMappings,
     standardized_entities |-> {}]

\* A file that holds one complete JSON text followed by the end of a longer one.
MixedResource ==
    [kind |-> "mixed", keys |-> {}, mappings |-> NoMappings, standardized_entities |-> {}]

RECURSIVE items_length(_)
\* The lines of the strings of a list: four spaces, two quotes and the string.
items_length(S) ==
    IF S = {} THEN 0
    ELSE LET x == CHOOSE y \in S : TRUE IN Len(x) + 6 + items_length(S \ {x})

RECURSIVE entries_length(_, _)
\* The lines of the entries of an object: four spaces, '"k": "v"'.
entries_length(ms, K) ==
    IF K = {} THEN 0
    ELSE LET k == CHOOSE y \in K : TRUE
         IN  Len(k) + Len(ms[k]) + 10 + entries_length(ms, K \ {k})

\* The number of characters json.dump(data, f, indent=2) writes for a store:
\* '{\n  "mappings": ' M ',\n  "standardized_entities": ' L '\n}', where an empty
\* M is '{}', an empty L is '[]', every entry is on a line of its own after four
\* spaces and the lines are joined by ',\n'.
json_length(ms, es) ==
    LET M == IF DOMAIN ms = {} THEN 2
             ELSE 2 + entries_length(ms, DOMAIN ms) + 2 * (Cardinality(DOMAIN ms) - 1) + 4
        L == IF es = {} THEN 2
             ELSE 2 + items_length(es) + 2 * (Cardinality(es) - 1) + 4
    IN  47 + M + L

\* The number of characters in the file.
file_length(res) ==
    IF res.kind = "json" /\ res.keys = BothKeys
    THEN json_length(res.mappings, res.standardized_entities) ELSE 0

\* The file after json.dump and the close: the text is written from position 0
\* of the file as it is then. A file that another instance has written since
\* this one's open keeps whatever it holds beyond the end of the new text.
written(res, st) ==
    IF file_length(res) > json_length(st.mappings, st.standardized_entities)
    THEN MixedResource
    ELSE dumped(st)

\* A file with a "standardized_entities" list and no "mappings".
EntitiesOnlyResource(c) ==
    [kind |-> "json", keys |-> {"standardized_entities"}, mappings |-> NoMappings,
     standardized_entities |-> Range(ShippedMappings(c))]

\* What an instance that has not loaded the file has read of it.
NotLoaded ==
    [kind |-> "none", keys |-> {}, mappings |-> NoMappings, standardized_entities |-> {}]

\* Files that no save_mappings has completed: an empty file (the state a file
\* is in between open(..., 'w') and the dump) and JSON objects short of a key.
DamagedResources(c) ==
    {TruncatedResource, MappingsOnlyResource(c), EntitiesOnlyResource(c)}

\* No review_normalizer has begun.
NoReview == [order |-> <<>>, pos |-> 0, used |-> 0]

\* __init__ on a file: the attributes of the new normalizer.
constructed(res) ==
    [mappings |-> load_mappings(res).mappings,
     standardized_entities |-> load_mappings(res).standardized_entities,
     pending_review |-> [k \in {} |-> 0]]

-----------------------------------------------------------------------------
(* The normalizer's operations, on a record of its attributes.             *)

Store ==
    [mappings |-> mappings, standardized_entities |-> standardized_entities,
     pending_review |-> pending_review, std_iter |-> std_iter, val_iter |-> val_iter]

\* The iteration order of a set after `x in S` or `S.add(x)`: the order it had
\* when x was a member, a new draw when the set grew.
order_after_add(order, S, x) == IF x \in S THEN order ELSE Undrawn

\* An assignment of a new set in place of the add().
replace_standardized_entities(st, entity) ==
    [st EXCEPT !.standardized_entities = {entity}, !.std_iter = Undrawn]

add_standardized_entity(st, entity) ==
    [st EXCEPT !.standardized_entities = @ \cup {entity},
               !.std_iter = order_after_add(@, st.standardized_entities, entity)]

\* add_mapping without its `if entity in self.pending_review: del ...`.
add_mapping_keep_pending(st, entity, standardized) ==
    [mappings |-> [k \in DOMAIN st.mappings \cup {entity} |->
                      IF k = entity THEN standardized ELSE st.mappings[k]],
     standardized_entities |-> st.standardized_entities \cup {standardized},
     pending_review |-> st.pending_review,
     std_iter |-> order_after_add(st.std_iter, st.standardized_entities, standardized),
     val_iter |-> IF entity \notin DOMAIN st.mappings
                  THEN order_after_add(st.val_iter, Range(st.mappings), standardized)
                  ELSE Undrawn]

\* add_mapping without its `self.standardized_entities.add(standardized)`.
add_mapping_unregistered(st, entity, standardized) ==
    [mappings |-> [k \in DOMAIN st.mappings \cup {entity} |->
                      IF k = entity THEN standardized ELSE st.mappings[k]],
     standardized_entities |-> st.standardized_entities,
     pending_review |-> [k \in DOMAIN st.pending_review \ {entity} |-> st.pending_review[k]],
     std_iter |-> st.std_iter,
     val_iter |-> IF entity \notin DOMAIN st.mappings
                  THEN order_after_add(st.val_iter, Range(st.mappings), standardized)
                  ELSE Undrawn]

add_mapping(st, entity, standardized) ==
    LET m == [k \in DOMAIN st.mappings \cup {entity} |->
                 IF k = entity THEN standardized ELSE st.mappings[k]]
        p == [k \in DOMAIN st.pending_review \ {entity} |-> st.pending_review[k]]
    IN  [mappings |-> m,
         standardized_entities |-> st.standardized_entities \cup {standardized},
         pending_review |-> p,
         std_iter |-> order_after_add(st.std_iter, st.standardized_entities, standardized),
         val_iter |-> IF entity \notin DOMAIN st.mappings
                      THEN order_after_add(st.val_iter, Range(st.mappings), standardized)
                      ELSE Undrawn]

\* The raw strings of a class in the model.
Raw(c) == Inputs(c) \cup Shapes(c) \cup Tested(c)

\* The strings normalize() can return for them, which a caller can hand to
\* normalize() again: the default, a canonical name from the file or from a
\* reviewer, or a cleaned string.
Returned(c) ==
    {get_default_entity(c)} \cup Customs(c) \cup Range(ShippedMappings(c))
        \cup {clean_entity(c, e) : e \in Raw(c)}

\* The validators, the default test and the cleaning on the raw strings of the
\* model, computed once.
input_table ==
    ([p \in UNION {{<<c, e>> : e \in Raw(c) \cup Returned(c)} : c \in Classes} |->
        [is_default |-> is_default_input(p[2]),
         is_invalid |-> CASE p[1] = "Company"  -> is_invalid_company(p[2])
                          [] p[1] = "Template" -> is_invalid_template(p[2])
                          [] p[1] = "Category" -> FALSE,
         cleaned |-> clean_entity(p[1], p[2])]]) @@ <<>>

\* Every string a store of the model can hold or be asked about.
Strings ==
    UNION {{input_table[<<c, e>>].cleaned :
               e \in Inputs(c) \cup {s \in Shapes(c) \cup Tested(c) :
                                           ~input_table[<<c, s>>].is_invalid}}
           \cup Customs(c) \cup Range(ShippedMappings(c)) : c \in Classes}

\* self.similarity on the strings of the model, computed once.
similarity_table == [p \in Strings \X Strings |-> similarity(p[1], p[2])] @@ <<>>

score_of(entity, candidate) ==
    IF <<entity, candidate>> \in DOMAIN similarity_table
    THEN similarity_table[<<entity, candidate>>]
    ELSE similarity(entity, candidate)

\* A loop that stops at its first candidate.
scan_first(seq, i, entity, best) ==
    IF i > Len(seq) THEN best
    ELSE [match |-> seq[i], score |-> score_of(entity, seq[i])]

RECURSIVE scan(_, _, _, _)
\* One loop of find_best_match over the candidates seq[i..].
scan(seq, i, entity, best) ==
    IF i > Len(seq) THEN best
    ELSE LET score == score_of(entity, seq[i])
         IN  scan(seq, i + 1, entity,
                  IF score_gt(score, best.score)
                  THEN [match |-> seq[i], score |-> score]
                  ELSE best)

\* The orders a set S with the recorded order `order` can iterate in.
orders_of(order, S) == IF order = Undrawn THEN Orders(S) ELSE {order}

\* find_best_match: the standardized entities, then the mapped values. The
\* result carries the iteration orders it has drawn: an order that the result
\* does not depend on stays undrawn.
find_best_match(st, entity) ==
    LET draws == orders_of(st.std_iter, st.standardized_entities)
                 \X orders_of(st.val_iter, Range(st.mappings))
        best(d) == scan(d[2], 1, entity,
                        scan(d[1], 1, entity, [match |-> entity, score |-> <<0, 1>>]))
        free == Cardinality({best(d) : d \in draws}) = 1
    IN  {[match |-> best(d).match, score |-> best(d).score,
          std_iter |-> IF free THEN st.std_iter ELSE d[1],
          val_iter |-> IF free THEN st.val_iter ELSE d[2]] : d \in draws}

\* `score > self.auto_threshold`
above_auto(score) == score_gt(score, DEFAULT_AUTO_THRESHOLD)

\* `score >= self.auto_threshold`
reaches_auto(score) == score_ge(score, DEFAULT_AUTO_THRESHOLD)

\* `score > self.suggest_threshold`
above_suggest(score) == score_gt(score, DEFAULT_SUGGEST_THRESHOLD)

\* `score >= self.suggest_threshold`
reaches_suggest(score) == score_ge(score, DEFAULT_SUGGEST_THRESHOLD)

Outcome(ret, rule, best, st) ==
    [ret |-> ret, rule |-> rule, match |-> best.match, score |-> best.score, store |-> st]

NoMatch == [match |-> None, score |-> <<0, 1>>]

set_pending(st, entity, best) ==
    [st EXCEPT !.pending_review =
        [k \in DOMAIN st.pending_review \cup {entity} |->
            IF k = entity THEN [suggested |-> best.match, score |-> best.score]
            ELSE st.pending_review[k]]]

\* A store whose sets forget the order they have iterated in.
not_iterated(st, best) == st

\* The store once find_best_match has iterated over it.
iterated(st, best) == [st EXCEPT !.std_iter = best.std_iter, !.val_iter = best.val_iter]

\* Normalizer.normalize from `if score >= self.auto_threshold` on.
after_match(st, cleaned_entity, best) ==
    IF reaches_auto(best.score)
    THEN Outcome(best.match, "auto", best, add_mapping(st, cleaned_entity, best.match))
    ELSE IF reaches_suggest(best.score)
    THEN Outcome(best.match, "suggest", best, set_pending(st, cleaned_entity, best))
    ELSE Outcome(cleaned_entity, "new", best, add_standardized_entity(st, cleaned_entity))

\* Normalizer.normalize: the results and stores it can end in.
base_normalize(c, st, entity) ==
    IF input_table[<<c, entity>>].is_default
    THEN {Outcome(get_default_entity(c), "default", NoMatch, st)}
    ELSE LET cleaned_entity == input_table[<<c, entity>>].cleaned
         IN  IF cleaned_entity \in DOMAIN st.mappings
             THEN {Outcome(st.mappings[cleaned_entity], "mapped", NoMatch, st)}
             ELSE IF cleaned_entity \in st.standardized_entities
             THEN {Outcome(cleaned_entity, "standardized", NoMatch, st)}
             ELSE {after_match(iterated(st, best), cleaned_entity, best) :
                      best \in find_best_match(st, cleaned_entity)}

\* A normalize() that asks no validator.
never_invalid(c, entity) == FALSE

\* The class's validator, as its normalize() applies it.
is_invalid(c, entity) == input_table[<<c, entity>>].is_invalid

\* normalize() of the class: CompanyNormalizer and TemplateNormalizer override it.
\* A normalize() that goes to Normalizer.normalize at once.
normalize_unvalidated(c, st, entity) == base_normalize(c, st, entity)

normalize(c, st, entity) ==
    IF is_invalid(c, entity)
    THEN {Outcome(get_default_entity(c), "invalid", NoMatch, st)}
    ELSE base_normalize(c, st, entity)

\* approve_mapping without its `standardized` argument: the suggestion, always.
approve_suggestion(st, entity, standardized) ==
    IF entity \in DOMAIN st.pending_review
    THEN add_mapping(st, entity, st.pending_review[entity].suggested)
    ELSE st

\* approve_mapping without its `if entity in self.pending_review`.
approve_unchecked(st, entity, standardized) ==
    add_mapping(st, entity, IF standardized = None THEN entity ELSE standardized)

approve_mapping(st, entity, standardized) ==
    IF entity \in DOMAIN st.pending_review
    THEN add_mapping(st, entity,
                     IF standardized = None THEN st.pending_review[entity].suggested
                     ELSE standardized)
    ELSE st

-----------------------------------------------------------------------------
(* The state machine of one normalizer and its mappings file.              *)

\* `again` holds when the operation is a normalize() of the string that the
\* operation before it normalized.
Call(op, arg, ret, rule, match, score) ==
    [op |-> op, arg |-> arg, ret |-> ret, rule |-> rule, match |-> match, score |-> score,
     again |-> op = "normalize" /\ call.op = "normalize" /\ call.arg = arg]

SetStore(st) ==
    /\ mappings' = st.mappings
    /\ standardized_entities' = st.standardized_entities
    /\ pending_review' = st.pending_review
    /\ std_iter' = st.std_iter
    /\ val_iter' = st.val_iter

Constructed(c, res) ==
    /\ cls = c
    /\ resource = res
    /\ mappings = load_mappings(res).mappings
    /\ standardized_entities = load_mappings(res).standardized_entities
    /\ pending_review = [k \in {} |-> 0]
    /\ std_iter = Undrawn
    /\ val_iter = Undrawn
    /\ pc = "idle"
    /\ call = [op |-> "init", arg |-> None, ret |-> None, rule |-> "none", match |-> None,
               score |-> <<0, 1>>, again |-> FALSE]
    /\ rejected = {}
    /\ review = NoReview
    /\ other = [mappings |-> load_mappings(res).mappings,
                standardized_entities |-> load_mappings(res).standardized_entities,
                pending_review |-> [k \in {} |-> 0],
                std_iter |-> Undrawn, val_iter |-> Undrawn, pc |-> "idle"]
    /\ prior = res
    /\ observed = NotLoaded

Init == \E c \in Classes : \E res \in InitialResources(c) : Constructed(c, res)

Normalize(entity) ==
    /\ pc = "idle"
    /\ \E o \in normalize(cls, Store, entity) :
          /\ Cardinality(o.store.standardized_entities) <= MaxEntities
          /\ SetStore(o.store)
          /\ call' = Call("normalize", entity, o.ret, o.rule, o.match, o.score)
    /\ UNCHANGED <<cls, review, resource, pc, rejected, other, prior, observed>>

\* review_normalizer, choice 'a' (standardized = None) or 'c', and any other
\* caller of approve_mapping.
Approve(entity, standardized) ==
    /\ pc = "idle"
    /\ LET s == approve_mapping(Store, entity, standardized)
       IN  /\ Cardinality(s.standardized_entities) <= MaxEntities
           /\ SetStore(s)
    /\ call' = Call("approve", entity, None,
                    IF entity \in DOMAIN pending_review THEN "approved" ELSE "not_found",
                    standardized, <<0, 1>>)
    /\ UNCHANGED <<cls, review, resource, pc, rejected, other, prior, observed>>

\* review_normalizer, choice 'r'.
Reject(entity) ==
    /\ pc = "idle"
    /\ entity \in DOMAIN pending_review
    /\ LET s == add_standardized_entity(Store, entity)
       IN  /\ Cardinality(s.standardized_entities) <= MaxEntities
           /\ SetStore(s)
    /\ call' = Call("reject", entity, None, "rejected", None, <<0, 1>>)
    /\ rejected' = rejected \cup {entity}
    /\ UNCHANGED <<cls, review, resource, pc, other, prior, observed>>

\* save_mappings, up to open(self.mappings_file, 'w'), which empties the file.
SaveOpen ==
    /\ pc = "idle"
    /\ pc' = "dump"
    /\ resource' = TruncatedResource
    /\ prior' = resource
    /\ call' = Call("save", None, None, "none", None, <<0, 1>>)
    /\ UNCHANGED <<cls, review, mappings, standardized_entities, pending_review, std_iter, val_iter,
                   rejected, other,
                   observed>>

\* save_mappings, json.dump and the close of the file.
SaveDump ==
    /\ pc = "dump"
    /\ pc' = "saved"
    /\ resource' = written(resource, Store)
    /\ UNCHANGED <<cls, review, mappings, standardized_entities, pending_review, std_iter, val_iter,
                   rejected, other,
                   call, prior, observed>>

\* save_mappings when open() raises (no permission, no directory): the except
\* clause prints and the method returns.
SaveOpenFails ==
    /\ pc = "idle"
    /\ pc' = "failed"
    /\ prior' = resource
    /\ call' = Call("save", None, None, "none", None, <<0, 1>>)
    /\ UNCHANGED <<cls, review, mappings, standardized_entities, pending_review, std_iter, val_iter,
                   rejected, other,
                   resource, observed>>

\* save_mappings when json.dump or the close of the file raises (disk full):
\* the except clause prints and the method returns; the file stays as cut as
\* the open and the writes so far have left it.
SaveDumpFails ==
    /\ pc = "dump"
    /\ pc' = "failed"
    /\ UNCHANGED <<cls, review, mappings, standardized_entities, pending_review, std_iter, val_iter,
                   rejected, other,
                   resource, call, prior, observed>>

\* review_normalizer up to the for statement: get_pending_reviews() hands out
\* self.pending_review itself, and without entries the function returns at
\* once. The dict iterates in the order of insertion, which the model does not
\* record: any order of the keys.
ReviewStart ==
    /\ pc = "idle"
    /\ IF DOMAIN pending_review = {}
       THEN pc' = "returned" /\ review' = review
       ELSE /\ pc' = "review"
            /\ \E order \in Orders(DOMAIN pending_review) :
                  review' = [order |-> order, pos |-> 1, used |-> Len(order)]
    /\ call' = Call("review", None, None, "none", None, <<0, 1>>)
    /\ UNCHANGED <<cls, mappings, standardized_entities, pending_review, std_iter, val_iter,
                   resource, rejected, other, prior, observed>>

\* The iterator has an entry to yield: the dict has the size it had when the
\* loop began and the position is inside it.
Yields ==
    /\ pc = "review"
    /\ Cardinality(DOMAIN pending_review) = review.used
    /\ review.pos <= Len(review.order)

\* One round of the loop: the entry is shown and the reviewer chooses 'a', 'r',
\* 'c' with a name, or 's'.
ReviewChoice(choice, custom) ==
    /\ Yields
    /\ LET entity == review.order[review.pos]
           s == CASE choice = "a" -> approve_mapping(Store, entity, None)
                  [] choice = "c" -> approve_mapping(Store, entity, custom)
                  [] choice = "r" -> add_standardized_entity(Store, entity)
                  [] choice = "s" -> Store
       IN  /\ Cardinality(s.standardized_entities) <= MaxEntities
           /\ SetStore(s)
           /\ rejected' = IF choice = "r" THEN rejected \cup {entity} ELSE rejected
           /\ call' = Call(CASE choice = "a" -> "approve" [] choice = "c" -> "approve"
                             [] choice = "r" -> "reject" [] choice = "s" -> "skip",
                           entity, None,
                           CASE choice = "r" -> "rejected" [] choice = "s" -> "none"
                             [] OTHER -> "approved",
                           IF choice = "c" THEN custom ELSE None, <<0, 1>>)
    /\ review' = [review EXCEPT !.pos = @ + 1]
    /\ UNCHANGED <<cls, resource, pc, other, prior, observed>>

\* The for statement asks the iterator for the next entry after an approve has
\* deleted one: RuntimeError, dictionary changed size during iteration. Nothing
\* in review_normalizer catches it, so line 66 is not reached.
ReviewRaises ==
    /\ pc = "review"
    /\ Cardinality(DOMAIN pending_review) # review.used
    /\ pc' = "raised"
    /\ UNCHANGED <<cls, review, mappings, standardized_entities, pending_review, std_iter,
                   val_iter, resource, call, rejected, other, prior, observed>>

\* The loop ends and review_normalizer calls save_mappings, here up to the open.
ReviewEnds ==
    /\ pc = "review"
    /\ Cardinality(DOMAIN pending_review) = review.used
    /\ review.pos > Len(review.order)
    /\ pc' = "dump"
    /\ resource' = TruncatedResource
    /\ prior' = resource
    /\ call' = Call("save", None, None, "none", None, <<0, 1>>)
    /\ UNCHANGED <<cls, review, mappings, standardized_entities, pending_review, std_iter,
                   val_iter, rejected, other, observed>>

\* The attributes of the second instance.
OtherStore ==
    [mappings |-> other.mappings, standardized_entities |-> other.standardized_entities,
     pending_review |-> other.pending_review, std_iter |-> other.std_iter,
     val_iter |-> other.val_iter]

WithPc(st, p) ==
    [mappings |-> st.mappings, standardized_entities |-> st.standardized_entities,
     pending_review |-> st.pending_review, std_iter |-> st.std_iter,
     val_iter |-> st.val_iter, pc |-> p]

\* normalize() in the second instance.
OtherNormalize(entity) ==
    /\ other.pc = "idle"
    /\ \E o \in normalize(cls, OtherStore, entity) :
          /\ Cardinality(o.store.standardized_entities) <= MaxEntities
          /\ other' = WithPc(o.store, "idle")
    /\ UNCHANGED <<cls, review, mappings, standardized_entities, pending_review, std_iter, val_iter,
                   resource, pc, call, rejected, prior, observed>>

\* save_mappings in the second instance, up to the open.
OtherSaveOpen ==
    /\ other.pc = "idle"
    /\ other' = [other EXCEPT !.pc = "dump"]
    /\ resource' = TruncatedResource
    /\ UNCHANGED <<cls, review, mappings, standardized_entities, pending_review, std_iter, val_iter,
                   pc, call, rejected, prior, observed>>

\* save_mappings in the second instance, json.dump and the close of the file.
OtherSaveDump ==
    /\ other.pc = "dump"
    /\ other' = [other EXCEPT !.pc = "saved"]
    /\ resource' = written(resource, OtherStore)
    /\ UNCHANGED <<cls, review, mappings, standardized_entities, pending_review, std_iter, val_iter,
                   pc, call, rejected, prior, observed>>

\* load_mappings of another instance on the same file, at any moment.
ReaderLoads ==
    /\ observed = NotLoaded
    /\ observed' = resource
    /\ UNCHANGED <<cls, review, mappings, standardized_entities, pending_review, std_iter, val_iter,
                   rejected, other,
                   resource, pc, call, prior>>

\* The raw string of a normalize() call that has just returned a suggestion,
\* which its caller can hand to approve_mapping.
LastNormalized == IF call.op = "normalize" /\ call.rule = "suggest" THEN {call.arg} ELSE {}

Next ==
    \/ \E entity \in Inputs(cls) : Normalize(entity)
    \/ \E entity \in DOMAIN pending_review \cup {UNKNOWN} :
          \E standardized \in Customs(cls) \cup {None} : Approve(entity, standardized)
    \/ \E entity \in LastNormalized : Approve(entity, None)
    \/ \E entity \in DOMAIN pending_review : Reject(entity)
    \/ SaveOpen
    \/ SaveDump
    \/ SaveOpenFails
    \/ SaveDumpFails

\* The callers' batches (normalize_email_data.py, refresh_normalization.py):
\* normalize() on whatever strings the e-mails held.
NextBatch == \E entity \in Builders(cls) \cup Shapes(cls) : Normalize(entity)

\* A review session on a normalizer that has normalized some strings.
NextReview ==
    \/ \E entity \in Inputs(cls) : Normalize(entity)
    \/ ReviewStart
    \/ \E choice \in {"a", "r", "s"} : ReviewChoice(choice, None)
    \/ \E custom \in Customs(cls) : ReviewChoice("c", custom)
    \/ ReviewRaises
    \/ ReviewEnds
    \/ SaveDump

ReviewSpec == Init /\ [][NextReview]_vars

\* Two processes on one mappings file: a batch that normalizes and saves, and
\* another instance that loads the file while the batch runs.
NextShared ==
    \/ \E entity \in Builders(cls) : Normalize(entity)
    \/ SaveOpen
    \/ SaveDump
    \/ SaveOpenFails
    \/ SaveDumpFails
    \/ ReaderLoads

SharedSpec == Init /\ [][NextShared]_vars

\* The strings each of two concurrent batches finds in its e-mails.
Found(c) ==
    CASE c = "Company"  -> {TSU_ONE, GRANTS}
      [] c = "Category" -> {SYNC_ERROR, SYNC_RETRY, SYNC_DELAY}
      [] c = "Template" -> {UPLOAD_ERROR, INVOICE_1}

\* Two batches on one mappings file, each with its own normalizer: both load
\* the file, normalize what they found and save.
NextWriters ==
    \/ \E entity \in Found(cls) : Normalize(entity)
    \/ SaveOpen
    \/ SaveDump
    \/ \E entity \in Found(cls) : OtherNormalize(entity)
    \/ OtherSaveOpen
    \/ OtherSaveDump

WritersSpec == Init /\ [][NextWriters]_vars

\* test_normalization.py: normalizers on a file without entries, the strings of
\* test_new_entity_handling among those of the other tests.
NextTest == \E entity \in Tested(cls) \cup Builders(cls) : Normalize(entity)

InitTest == \E c \in Classes : Constructed(c, EmptyResource)

TestSpec == InitTest /\ [][NextTest]_vars

\* A batch starts from any file, a damaged one included.
InitBatch ==
    \E c \in Classes :
        \E res \in InitialResources(c) \cup DamagedResources(c) : Constructed(c, res)

BatchSpec == InitBatch /\ [][NextBatch]_vars

Spec == Init /\ [][Next]_vars

-----------------------------------------------------------------------------
(* What the properties below read off a step.                              *)

\* clean(s) for the raw string s, in the class of the instance.
cleaned_of(entity) == input_table[<<cls, entity>>].cleaned

\* s is the empty string or 'n/a' / 'unknown' in any letter case.
NotAvailable(entity) ==
    \/ entity = <<>>
    \/ lower(entity) \in {<<"n","/","a">>, <<"u","n","k","n","o","w","n">>}

\* The default canonical value of the class of the instance.
ClassDefault == IF cls = "Company" THEN UNKNOWN_COMPANY ELSE OTHER_CATEGORY

\* The step is a call normalize(call'.arg).
NormalizeCalled == call'.op = "normalize"

\* normalize(entity) gets as far as fuzzy matching from the current store.
ReachesFuzzy(entity) ==
    /\ ~NotAvailable(entity)
    /\ ~input_table[<<cls, entity>>].is_invalid
    /\ cleaned_of(entity) \notin DOMAIN mappings
    /\ cleaned_of(entity) \notin standardized_entities

StoreUnchanged ==
    /\ mappings' = mappings
    /\ standardized_entities' = standardized_entities
    /\ pending_review' = pending_review

AtLeast(score, num, den) == score[1] * den >= num * score[2]

-----------------------------------------------------------------------------
(* The properties.                                                         *)

\* C1. Auto tier: a normalize(s) that reaches fuzzy matching with a best score
\* of at least 0.9 (0.9 itself included) returns the best candidate, and
\* afterwards clean(s) is mapped to the best candidate, the best candidate is a
\* standardized entity and clean(s) is not pending.
AutoTier ==
    [][(NormalizeCalled /\ ReachesFuzzy(call'.arg) /\ AtLeast(call'.score, 9, 10))
       => /\ call'.ret = call'.match
          /\ cleaned_of(call'.arg) \in DOMAIN mappings'
          /\ mappings'[cleaned_of(call'.arg)] = call'.match
          /\ call'.match \in standardized_entities'
          /\ cleaned_of(call'.arg) \notin DOMAIN pending_review']_vars

\* A call that scored exactly 0.9 and was mapped.
AutoTierWitness ==
    /\ call.op = "normalize"
    /\ call.score = <<9, 10>>
    /\ call.ret = call.match
    /\ cleaned_of(call.arg) \in DOMAIN mappings
    /\ mappings[cleaned_of(call.arg)] = call.match

\* C2. Suggest tier: a normalize(s) that reaches fuzzy matching with a best
\* score of at least 0.7 (0.7 itself included) and below 0.9 returns the best
\* candidate, records it with its score as the pending review of clean(s), and
\* leaves the mappings and the standardized entities as they were.
SuggestTier ==
    [][(/\ NormalizeCalled
        /\ ReachesFuzzy(call'.arg)
        /\ AtLeast(call'.score, 7, 10)
        /\ ~AtLeast(call'.score, 9, 10))
       => /\ call'.ret = call'.match
          /\ cleaned_of(call'.arg) \in DOMAIN pending_review'
          /\ pending_review'[cleaned_of(call'.arg)] =
                [suggested |-> call'.match, score |-> call'.score]
          /\ mappings' = mappings
          /\ standardized_entities' = standardized_entities]_vars

\* A call that scored exactly 0.7 and left a pending review.
SuggestTierWitness ==
    /\ call.op = "normalize"
    /\ call.score = <<7, 10>>
    /\ call.ret = call.match
    /\ cleaned_of(call.arg) \in DOMAIN pending_review
    /\ pending_review[cleaned_of(call.arg)].suggested = call.ret
    /\ cleaned_of(call.arg) \notin DOMAIN mappings

DefaultValues ==
    [][(NormalizeCalled /\ NotAvailable(call'.arg))
       => (call'.ret = ClassDefault /\ StoreUnchanged)]_vars

\* 'N/A' normalized by a category normalizer that has entities in its store.
DefaultValuesWitness ==
    /\ cls = "Category"
    /\ call.op = "normalize"
    /\ call.arg = N_A
    /\ call.ret = OTHER_CATEGORY
    /\ standardized_entities # {}

\* The non-empty strings made of whitespace only.
WhitespaceOnly(entity) == entity # <<>> /\ \A i \in 1..Len(entity) : entity[i] \in Whitespace

\* C5. Whitespace-only input: in every class, normalize of a non-empty string
\* of whitespace returns the default of the class and changes nothing in the
\* store.
WhitespaceDefault ==
    [][(NormalizeCalled /\ WhitespaceOnly(call'.arg))
       => (call'.ret = ClassDefault /\ StoreUnchanged)]_vars

\* C6, as the specification states it. Mapped variant: in every class, for an
\* input that is not empty / 'n/a' / 'unknown' and whose cleaned form is a
\* mapping key, normalize returns the mapped value and changes nothing.
MappedVariantAlways ==
    [][(/\ NormalizeCalled
        /\ ~NotAvailable(call'.arg)
        /\ cleaned_of(call'.arg) \in DOMAIN mappings)
       => (call'.ret = mappings[cleaned_of(call'.arg)] /\ StoreUnchanged)]_vars

\* C6, as the code has it. Mapped variant: for an input that is not empty /
\* 'n/a' / 'unknown' and whose cleaned form is a mapping key, normalize returns
\* the mapped value when the validator of the class accepts the raw input
\* (always, for Category) and the default of the class when it rejects it; it
\* changes nothing in either case.
MappedVariantWhenValid ==
    [][(/\ NormalizeCalled
        /\ ~NotAvailable(call'.arg)
        /\ cleaned_of(call'.arg) \in DOMAIN mappings)
       => /\ StoreUnchanged
          /\ call'.ret = IF input_table[<<cls, call'.arg>>].is_invalid
                         THEN ClassDefault
                         ELSE mappings[cleaned_of(call'.arg)]]_vars

\* A company name that the validator rejects while its cleaned form is mapped.
MappedVariantWitness ==
    /\ cls = "Company"
    /\ call.op = "normalize"
    /\ ~NotAvailable(call.arg)
    /\ cleaned_of(call.arg) \in DOMAIN mappings
    /\ input_table[<<cls, call.arg>>].is_invalid
    /\ call.ret = UNKNOWN_COMPANY
    /\ mappings[cleaned_of(call.arg)] # UNKNOWN_COMPANY

\* C7. Already-canonical input: in every class, normalize of a member c of the
\* standardized entities (c not empty / 'n/a' / 'unknown' and not a mapping
\* key) returns c and changes nothing in the store, company names that end in
\* a legal suffix included.
AlreadyCanonical ==
    [][(/\ NormalizeCalled
        /\ ~NotAvailable(call'.arg)
        /\ call'.arg \in standardized_entities
        /\ call'.arg \notin DOMAIN mappings)
       => (call'.ret = call'.arg /\ StoreUnchanged)]_vars

\* C8. Consecutive-call idempotence: a normalize(s) that directly follows a
\* normalize(s) returns what the first call returned and leaves the mappings,
\* the standardized entities and the pending reviews as the first call left
\* them.
ConsecutiveIdempotent ==
    [][(/\ call.op = "normalize"
        /\ NormalizeCalled
        /\ call'.arg = call.arg)
       => (call'.ret = call.ret /\ StoreUnchanged)]_vars

\* A repeated call in the suggest tier whose candidates tie, so that the result
\* depends on the order in which the set iterates.
ConsecutiveIdempotentWitness ==
    /\ call.op = "normalize"
    /\ call.again
    /\ call.rule = "suggest"
    /\ std_iter # Undrawn
    /\ pending_review[cleaned_of(call.arg)].suggested = call.ret

\* C9. Store invariant: in every reachable state every value of the mappings
\* is a standardized entity.
MappedValuesStandardized == Range(mappings) \subseteq standardized_entities

\* C10. Pending/mapping disjointness: in every reachable state no variant is a
\* key of the pending reviews and of the mappings at the same time.
PendingMappingDisjoint == DOMAIN pending_review \cap DOMAIN mappings = {}

\* A variant that was pending and is mapped after its approval.
PendingMappingDisjointWitness ==
    /\ call.op = "approve"
    /\ call.rule = "approved"
    /\ call.arg \in DOMAIN mappings
    /\ call.arg \notin DOMAIN pending_review
    /\ pending_review # [k \in {} |-> 0]

\* The step is a call approve_mapping(call'.arg, call'.match), where a match of
\* None stands for the argument left out.
ApproveCalled == call'.op = "approve"

\* C11. Approve: approve(v, override) of a variant v that is pending maps v to
\* the override when one is given and to the suggestion recorded for v
\* otherwise; that canonical value is then a standardized entity and v is no
\* longer pending.
ApproveCommits ==
    [][(ApproveCalled /\ call'.arg \in DOMAIN pending_review)
       => LET canonical == IF call'.match = None
                           THEN pending_review[call'.arg].suggested
                           ELSE call'.match
          IN  /\ call'.arg \in DOMAIN mappings'
              /\ mappings'[call'.arg] = canonical
              /\ canonical \in standardized_entities'
              /\ call'.arg \notin DOMAIN pending_review']_vars

\* An approval with an override that the variant is now mapped to.
ApproveCommitsWitness ==
    /\ call.op = "approve"
    /\ call.rule = "approved"
    /\ call.match # None
    /\ call.arg \in DOMAIN mappings
    /\ mappings[call.arg] = call.match
    /\ call.match \in standardized_entities
    /\ call.arg \notin DOMAIN pending_review

\* C12. Approve of an unknown variant: approve(v, override) of a variant v that
\* is not pending, with or without an override, ends without an error (the
\* process goes on) and leaves the mappings, the standardized entities and the
\* pending reviews as they were.
ApproveUnknownNoOp ==
    [][(ApproveCalled /\ call'.arg \notin DOMAIN pending_review)
       => (StoreUnchanged /\ call'.rule = "not_found" /\ pc' = "idle")]_vars

\* An approval with an override of a variant that is not pending, while other
\* variants are.
ApproveUnknownNoOpWitness ==
    /\ call.op = "approve"
    /\ call.rule = "not_found"
    /\ call.match # None
    /\ call.arg \notin DOMAIN mappings
    /\ call.arg \notin standardized_entities
    /\ DOMAIN pending_review # {}

\* The step is a rejection of the pending suggestion for call'.arg.
RejectCalled == call'.op = "reject"

\* C13. Reject clears the pending entry: after the suggestion for a pending
\* variant v is rejected, v is a standardized entity and v is no longer
\* pending.
RejectClearsPending ==
    [][(RejectCalled /\ call'.arg \in DOMAIN pending_review)
       => /\ call'.arg \in standardized_entities'
          /\ call'.arg \notin DOMAIN pending_review']_vars

\* C14. Reject makes the variant its own canonical form: once the suggestion
\* for a variant v (v pending after a normalize(v) in the suggest tier) has
\* been rejected, every later normalize(v) returns v and v is not a mapping
\* key after it.
RejectedStaysCanonical ==
    [][(call'.op = "normalize" /\ call'.arg \in rejected)
          => (call'.ret = call'.arg /\ call'.arg \notin DOMAIN mappings')]_vars

\* The last operation was a normalize() that ended in the suggest tier.
Suggested ==
    /\ call.op = "normalize"
    /\ AtLeast(call.score, 7, 10)
    /\ ~AtLeast(call.score, 9, 10)
    /\ cleaned_of(call.arg) \in DOMAIN pending_review
    /\ pending_review[cleaned_of(call.arg)].suggested = call.ret

\* C15. Pending-review round trip: in every class, when normalize(s) has ended
\* in the suggest tier with the canonical value C, approve(s) with the same raw
\* string s maps clean(s) to C and clears the pending entry, so that the next
\* normalize(s) finds C by the exact-mapping rule.
PendingRoundTrip ==
    [][(Suggested /\ ApproveCalled /\ call'.arg = call.arg /\ call'.match = None)
       => /\ cleaned_of(call.arg) \in DOMAIN mappings'
          /\ mappings'[cleaned_of(call.arg)] = call.ret
          /\ cleaned_of(call.arg) \notin DOMAIN pending_review']_vars

\* C16. Company allow-list override: the company validator accepts every raw
\* string that is one of the known company names, whatever the exclusion rules
\* say of it, so that normalize of such a name is never answered with
\* 'Unknown Company' by the validator.
AllowListAccepted ==
    [][(NormalizeCalled /\ cls = "Company" /\ call'.arg \in known_companies)
       => /\ ~input_table[<<cls, call'.arg>>].is_invalid
          /\ call'.ret # UNKNOWN_COMPANY]_vars

FailSoftLoad ==
    (call.op = "init" /\ ~(resource.kind = "json" /\ resource.keys = BothKeys))
        => (mappings = NoMappings /\ standardized_entities = {})

\* C19: a load_mappings of another instance, run while this instance is
\* inside save_mappings, never reads a cut file: what it has read is the
\* complete content from before the save or the complete new content.
ReaderSeesComplete ==
    observed # NotLoaded =>
        /\ observed.kind # "truncated"
        /\ observed \in {prior, dumped(Store)}

\* C20: when save_mappings fails, at the open or during the dump, it returns
\* normally with the mappings, the standardized entities and the pending
\* reviews unchanged, and the file holds the complete content it had before
\* the save began.
SaveFailureContained ==
    [][pc' = "failed" => (StoreUnchanged /\ resource' = prior')]_vars

\* C21: last save wins. Once both instances have finished save_mappings, the
\* file holds exactly the mappings and the standardized entities of the
\* instance whose save finished last, whatever the interleaving of the two
\* opens and the two dumps.
LastSaveWins ==
    [][(pc' = "saved" /\ other'.pc = "saved")
          => resource' = IF pc # "saved" THEN dumped(Store) ELSE dumped(OtherStore)]_vars

\* C22: persistence round trip. After a save_mappings that succeeded, a
\* normalizer constructed on the same file has the mappings and the
\* standardized entities of the instance that saved, and no pending review,
\* whatever the pending reviews of that instance are.
PersistenceRoundTrip ==
    pc = "saved" =>
        /\ constructed(resource).mappings = mappings
        /\ constructed(resource).standardized_entities = standardized_entities
        /\ constructed(resource).pending_review = [k \in {} |-> 0]

\* A save of mappings, standardized entities and a pending review has succeeded.
PersistenceRoundTripWitness ==
    /\ pc = "saved"
    /\ DOMAIN mappings # {}
    /\ Cardinality(standardized_entities) > 1
    /\ DOMAIN pending_review # {}
    /\ resource.kind = "json"

\* The store holds nothing but what normalize(new_entity) has put there.
OnlyNewEntity ==
    /\ mappings = NoMappings
    /\ DOMAIN pending_review = {}
    /\ standardized_entities \subseteq {new_entity(cls), cleaned_of(new_entity(cls))}

\* C23: new-entity handling as test_new_entity_handling expects it. On a store
\* without entries normalize(e) of the new entity e of the class returns e and
\* makes e a standardized entity, a second normalize(e) returns e again, and
\* normalize(e + " Variation") after them returns e.
NewEntityHandling ==
    [][NormalizeCalled =>
          /\ (call'.arg = new_entity(cls) /\ call.op = "init")
                => (call'.ret = new_entity(cls)
                    /\ new_entity(cls) \in standardized_entities')
          /\ (call'.arg = new_entity(cls) /\ call.op = "normalize"
                /\ call.arg = new_entity(cls) /\ OnlyNewEntity)
                => call'.ret = new_entity(cls)
          /\ (call'.arg = variation(new_entity(cls)) /\ call.op = "normalize"
                /\ call.arg = new_entity(cls) /\ call.again /\ OnlyNewEntity)
                => call'.ret = new_entity(cls)]_vars

\* What a normalize() call shows of itself: its result and the mappings and
\* standardized entities it leaves.
Visible(o) == <<o.ret, o.store.mappings, o.store.standardized_entities>>

\* C24: determinism. Two instances of one class whose mappings and
\* standardized entities have equal contents return the same value and reach
\* equal mappings and standardized entities for normalize(s), for every s,
\* candidates that tie for the best score included.
Deterministic ==
    (mappings = other.mappings /\ standardized_entities = other.standardized_entities)
        => \A s \in Found(cls) :
              \A a \in normalize(cls, Store, s) :
                  \A b \in normalize(cls, OtherStore, s) : Visible(a) = Visible(b)

\* The step is a normalize() that has called find_best_match.
Matched == NormalizeCalled /\ call'.rule \in {"auto", "suggest", "new"}

\* The candidates of find_best_match in the current store.
Candidates == standardized_entities \cup Range(mappings)

\* C25: best-match search. find_best_match(e) returns a candidate and a score:
\* the score is the greatest similarity of e to a standardized entity or a
\* mapped value, the candidate is one of them that has this score, and a
\* mapped value is returned only when no standardized entity has it; without
\* candidates, or when every candidate scores 0, it returns e and 0.
BestMatchSearch ==
    [][Matched =>
          LET e == cleaned_of(call'.arg)
          IN  IF \A c \in Candidates : ~score_gt(score_of(e, c), <<0, 1>>)
              THEN call'.match = e /\ call'.score = <<0, 1>>
              ELSE /\ call'.match \in Candidates
                   /\ call'.score = score_of(e, call'.match)
                   /\ \A c \in Candidates : score_ge(call'.score, score_of(e, c))
                   /\ call'.match \notin standardized_entities
                         => \A c \in standardized_entities :
                               score_gt(call'.score, score_of(e, c))]_vars

\* find_best_match has chosen among three candidates or more that do not all
\* score alike.
BestMatchSearchWitness ==
    /\ call.op = "normalize"
    /\ call.rule = "suggest"
    /\ Cardinality(standardized_entities) >= 3
    /\ \E c \in standardized_entities :
          score_gt(call.score, score_of(cleaned_of(call.arg), c))

\* find_best_match has returned the entity itself with score 0 although the
\* store holds candidates.
BestMatchZeroWitness ==
    /\ call.op = "normalize"
    /\ call.rule = "new"
    /\ call.score = <<0, 1>>
    /\ call.match = cleaned_of(call.arg)
    /\ Cardinality(standardized_entities \ {call.match}) >= 1

\* C26: established entities are preserved. No normalize, approve or reject
\* removes a key of the mappings, changes the canonical value of a key that
\* the mappings hold, or removes a standardized entity.
EstablishedPreserved ==
    [][/\ \A k \in DOMAIN mappings : k \in DOMAIN mappings' /\ mappings'[k] = mappings[k]
       /\ standardized_entities \subseteq standardized_entities']_vars

\* An approve with an override and a reject have acted on a store that held
\* mappings and standardized entities before.
EstablishedPreservedWitness ==
    /\ call.op = "approve"
    /\ call.rule = "approved"
    /\ call.match # None
    /\ rejected # {}
    /\ Cardinality(DOMAIN mappings) >= 2
    /\ Cardinality(standardized_entities) >= 2

\* C27: the review session completes. review_normalizer shows every entry
\* that was pending at its start once and, whatever the reviewer chooses, gets
\* to the end of the entries without an error and then saves.
ReviewCompletes ==
    /\ pc # "raised"
    /\ (review # NoReview /\ pc \in {"dump", "saved"})
          => review.pos = Len(review.order) + 1

\* The attributes of the instance after the step.
StoreAfter ==
    [mappings |-> mappings', standardized_entities |-> standardized_entities',
     pending_review |-> pending_review', std_iter |-> std_iter', val_iter |-> val_iter']

\* C28: the output is a fixed point. In every reachable state, for every
\* input s, normalize of the value that normalize(s) has returned returns that
\* value again.
OutputFixedPoint ==
    [][NormalizeCalled =>
          \A o \in normalize(cls, StoreAfter, call'.ret) : o.ret = call'.ret]_vars

\* The runs of normalize(a) and then normalize(b) from a store: the two values
\* returned and the mappings and standardized entities at the end.
Runs(st, a, b) ==
    UNION {{[first |-> o.ret, second |-> p.ret, mappings |-> p.store.mappings,
             standardized_entities |-> p.store.standardized_entities] :
               p \in normalize(cls, o.store, b)} : o \in normalize(cls, st, a)}

\* C29: order independence of a batch. From one store, normalizing the same
\* raw strings in two different orders ends with the same mappings and
\* standardized entities and returns the same canonical value for each string.
OrderIndependent ==
    \A a, b \in Builders(cls) :
        a # b =>
            \A x \in Runs(Store, a, b) :
                \A y \in Runs(Store, b, a) :
                    /\ x.first = y.second
                    /\ x.second = y.first
                    /\ x.mappings = y.mappings
                    /\ x.standardized_entities = y.standardized_entities

\* The instance was constructed on a missing file or on a file without entries.
BeganEmpty == prior \in {MissingResource, EmptyResource}

\* C30: returned values are known canonicals. On an instance constructed over
\* an empty or missing file, whatever normalize, approve and reject have done
\* before, the value a normalize() returns is the default of the class or a
\* standardized entity of the state right after the call.
ReturnedKnown ==
    [][(NormalizeCalled /\ BeganEmpty)
          => (call'.ret = ClassDefault \/ call'.ret \in standardized_entities')]_vars

\* After an approve with an override on a store that began empty, normalize
\* has returned the value of a mapping.
ReturnedKnownWitness ==
    /\ BeganEmpty
    /\ pc = "idle"
    /\ call.op = "normalize"
    /\ call.rule = "mapped"
    /\ call.ret # ClassDefault
    /\ call.ret # cleaned_of(call.arg)
    /\ rejected # {}

====
